---- MODULE Spec2Model ----
(***************************************************************************)
(* Analyst-ratings reporting utility: the Streamlit dashboard              *)
(* (src/streamlit_app.py) and the scheduled e-mail digest                  *)
(* (src/digest_bot.py).  Both fetch per-symbol analyst actions from the    *)
(* provider, keep the rows inside a look-back window, and normalise the    *)
(* provider's table into a display table.                                  *)
(*                                                                         *)
(* A column name is a sequence of one-character strings, so that           *)
(* str.lower() and the substring test `in` are computed.  A cell is a      *)
(* record [t, s, n]: t is the Python type of the value ("str", "num",      *)
(* "null" for None/NaN, "ts" for a Timestamp, "date" for a strftime        *)
(* result), s its text and n its number.  A price is held in cents.        *)
(***************************************************************************)
EXTENDS Integers, Sequences, FiniteSets, TLC

---------------------------------------------------------------------------
(* Strings as character sequences *)

UpperCase == <<"A","B","C","D","E","F","G","H","I","J","K","L","M","N","O","P","Q","R","S","T","U","V","W","X","Y","Z">>
LowerCase == <<"a","b","c","d","e","f","g","h","i","j","k","l","m","n","o","p","q","r","s","t","u","v","w","x","y","z">>

lower_char(c) ==
    IF \E k \in 1..Len(UpperCase) : UpperCase[k] = c
    THEN LowerCase[CHOOSE k \in 1..Len(UpperCase) : UpperCase[k] = c]
    ELSE c

\* str(col).lower()
lower(name) == [k \in 1..Len(name) |-> lower_char(name[k])]

\* sub in name
contains(sub, name) ==
    \E k \in 0..(Len(name) - Len(sub)) : SubSeq(name, k + 1, k + Len(sub)) = sub

\* the canonical (display) column names
Symbol == <<"S","y","m","b","o","l">>
Date == <<"D","a","t","e">>
Firm == <<"F","i","r","m">>
Action == <<"A","c","t","i","o","n">>
To_Grade == <<"T","o"," ","G","r","a","d","e">>
From_Grade == <<"F","r","o","m"," ","G","r","a","d","e">>
Price_Target_Action == <<"P","r","i","c","e"," ","T","a","r","g","e","t"," ","A","c","t","i","o","n">>
Current_Price_Target == <<"C","u","r","r","e","n","t"," ","P","r","i","c","e"," ","T","a","r","g","e","t">>
Prior_Price_Target == <<"P","r","i","o","r"," ","P","r","i","c","e"," ","T","a","r","g","e","t">>

\* the names the classification compares a column with
ToGrade == <<"T","o","G","r","a","d","e">>
FromGrade == <<"F","r","o","m","G","r","a","d","e">>
PriceTargetAction == <<"P","r","i","c","e","T","a","r","g","e","t","A","c","t","i","o","n">>
CurrentPriceTarget == <<"C","u","r","r","e","n","t","P","r","i","c","e","T","a","r","g","e","t">>
PriorPriceTarget == <<"P","r","i","o","r","P","r","i","c","e","T","a","r","g","e","t">>
s_date == <<"d","a","t","e">>
s_index == <<"i","n","d","e","x">>
s_firm == <<"f","i","r","m">>
s_tograde == <<"t","o","g","r","a","d","e">>
s_fromgrade == <<"f","r","o","m","g","r","a","d","e">>
s_action == <<"a","c","t","i","o","n">>
s_price == <<"p","r","i","c","e">>
s_pricetargetaction == <<"p","r","i","c","e","t","a","r","g","e","t","a","c","t","i","o","n">>
s_currentpricetarget == <<"c","u","r","r","e","n","t","p","r","i","c","e","t","a","r","g","e","t">>
s_priorpricetarget == <<"p","r","i","o","r","p","r","i","c","e","t","a","r","g","e","t">>

\* names the provider uses (yfinance's upgrades_downgrades) and variants of them
GradeDate == <<"G","r","a","d","e","D","a","t","e">>
priceTargetAction == <<"p","r","i","c","e","T","a","r","g","e","t","A","c","t","i","o","n">>
currentPriceTarget == <<"c","u","r","r","e","n","t","P","r","i","c","e","T","a","r","g","e","t">>
priorPriceTarget == <<"p","r","i","o","r","P","r","i","c","e","T","a","r","g","e","t">>
action_price_flag == <<"a","c","t","i","o","n","_","p","r","i","c","e","_","f","l","a","g">>
firm_action == <<"f","i","r","m","_","a","c","t","i","o","n">>
action_date == <<"a","c","t","i","o","n","_","d","a","t","e">>
epoch == <<"e","p","o","c","h">>

---------------------------------------------------------------------------
(* Cells and data frames *)

Str(s) == [t |-> "str", s |-> s, n |-> 0]
Num(c) == [t |-> "num", s |-> "", n |-> c]
Null == [t |-> "null", s |-> "", n |-> 0]
Ts(x) == [t |-> "ts", s |-> "", n |-> x]
Formatted(fmt, x) == [t |-> "date", s |-> fmt, n |-> x]
\* the value of a cell whose computation raised
Raising == [t |-> "raise", s |-> "", n |-> 0]
NA == Str("N/A")

\* pd.DataFrame()
EmptyDF == [cols |-> <<>>, rows |-> <<>>]
\* DataFrame.empty: an axis of length 0
empty(df) == Len(df.rows) = 0 \/ Len(df.cols) = 0

Ok(df) == [raised |-> FALSE, df |-> df]
Raise == [raised |-> TRUE, df |-> EmptyDF]

count(cols, name) == Cardinality({j \in 1..Len(cols) : cols[j] = name})
\* name in df.columns
has(df, name) == count(df.cols, name) > 0
position(cols, name) == CHOOSE j \in 1..Len(cols) : cols[j] = name

\* df[name] = f(df[name]) cell by cell; a duplicated label makes df[name] a
\* frame, on which to_datetime, Series.map and the price lambda all raise
set_column(df, name, new) ==
    IF count(df.cols, name) > 1 THEN Raise
    ELSE LET j == position(df.cols, name)
         IN  IF \E r \in 1..Len(df.rows) : new[r] = Raising THEN Raise
             ELSE Ok([df EXCEPT !.rows =
                        [r \in 1..Len(df.rows) |-> [df.rows[r] EXCEPT !.cells[j] = new[r]]]])

column(df, name) == [r \in 1..Len(df.rows) |-> df.rows[r].cells[position(df.cols, name)]]

---------------------------------------------------------------------------
(* Value transformations *)

SecondsPerMinute == 60
SecondsPerHour == 3600
SecondsPerDay == 86400

DayFormat == "%Y-%m-%d"
MinuteFormat == "%Y-%m-%d %H:%M"

\* pd.to_datetime(x).strftime(date_format): the text names the day, or the
\* minute, the instant falls in; two instants get the same text exactly when
\* they fall in the same one, and the texts order as the instants do
strftime(x, date_format) ==
    IF x.t = "ts"
    THEN Formatted(date_format,
                   x.n \div (IF date_format = DayFormat THEN SecondsPerDay ELSE SecondsPerMinute))
    ELSE IF x.t = "null" THEN Null ELSE Raising

\* f"${x:.2f}" of a price held in cents
dollars(c) ==
    "$" \o ToString(c \div 100) \o "." \o (IF c % 100 < 10 THEN "0" ELSE "") \o ToString(c % 100)

\* price_lambda without the test x != ''
price_lambda_notnull_only(x) ==
    IF x.t # "null"
    THEN IF x.t = "num" THEN Str(dollars(x.n)) ELSE x
    ELSE NA

\* lambda x: f"${x:.2f}" if pd.notnull(x) and x != '' else 'N/A'
\* (the format code f raises on anything that is not a number)
price_lambda(x) ==
    IF x.t # "null" /\ x # Str("")
    THEN IF x.t = "num" THEN Str(dollars(x.n)) ELSE Raising
    ELSE NA

\* map_fillna without the fillna: a value the table lacks becomes NaN
map_no_fillna(x, table) ==
    IF x.t = "str" /\ x.s \in DOMAIN table THEN Str(table[x.s]) ELSE Null

\* series.map(table).fillna(series) on one value
map_fillna(x, table) ==
    IF x.t = "str" /\ x.s \in DOMAIN table THEN Str(table[x.s]) ELSE x

\* each step acts on the result so far and is skipped once something raised
format_date(r, date_format) ==
    IF r.raised \/ ~has(r.df, Date) THEN r
    ELSE set_column(r.df, Date,
                    [k \in 1..Len(r.df.rows) |-> strftime(column(r.df, Date)[k], date_format)])

map_codes(r, name, table) ==
    IF r.raised \/ ~has(r.df, name) THEN r
    ELSE set_column(r.df, name,
                    [k \in 1..Len(r.df.rows) |-> map_fillna(column(r.df, name)[k], table)])

format_price(r, name) ==
    IF r.raised \/ ~has(r.df, name) THEN r
    ELSE set_column(r.df, name,
                    [k \in 1..Len(r.df.rows) |-> price_lambda(column(r.df, name)[k])])

RECURSIVE selected(_, _)
\* [col for col in column_order if col in df.columns], as positions of df
selected(cols, order) ==
    IF order = <<>> THEN <<>>
    ELSE SelectSeq([j \in 1..Len(cols) |-> j], LAMBDA j : cols[j] = Head(order))
            \o selected(cols, Tail(order))

\* df[[...]]
select_columns(r, order) ==
    IF r.raised THEN r
    ELSE LET idx == selected(r.df.cols, order)
         IN  Ok([cols |-> [k \in 1..Len(idx) |-> r.df.cols[idx[k]]],
                 rows |-> [i \in 1..Len(r.df.rows) |->
                            [id |-> r.df.rows[i].id,
                             cells |-> [k \in 1..Len(idx) |-> r.df.rows[i].cells[idx[k]]]]]])

\* df.reset_index(): the index becomes the first column
reset_index(f) ==
    [cols |-> <<f.index_name>> \o f.cols,
     rows |-> [i \in 1..Len(f.rows) |->
                [id |-> f.rows[i].id, cells |-> <<Ts(f.rows[i].ts)>> \o f.rows[i].cells]]]

\* not_older with the comparison strict
not_older_strict(f, cutoff) ==
    [f EXCEPT !.rows = SelectSeq(f.rows, LAMBDA row : row.ts > cutoff)]

\* actions[actions.index >= cutoff]
not_older(f, cutoff) == [f EXCEPT !.rows = SelectSeq(f.rows, LAMBDA row : row.ts >= cutoff)]

\* df.insert(0, 'Symbol', sym)
insert_symbol(df, sym) ==
    [cols |-> <<Symbol>> \o df.cols,
     rows |-> [i \in 1..Len(df.rows) |-> [df.rows[i] EXCEPT !.cells = <<Str(sym)>> \o @]]]

RECURSIVE concat(_)
\* pd.concat(frames, ignore_index=True) of frames that have the same columns
concat(frames) ==
    IF Len(frames) = 1 THEN Head(frames)
    ELSE [cols |-> Head(frames).cols,
          rows |-> Head(frames).rows \o concat(Tail(frames)).rows]

\* The orders df.sort_values('Date', ascending=False) may leave the rows in:
\* sort_values sorts with kind='quicksort', which is not a stable sort, so rows
\* of equal Date come out in any order
sort_values(df) ==
    LET n == Len(df.rows)
        key(i) == df.rows[i].cells[position(df.cols, Date)].n
    IN  {p \in [1..n -> 1..n] :
            /\ \A a, b \in 1..n : a # b => p[a] # p[b]
            /\ \A a \in 1..(n - 1) : key(p[a]) >= key(p[a + 1])}

reorder(df, p) == [df EXCEPT !.rows = [k \in 1..Len(df.rows) |-> df.rows[p[k]]]]

---------------------------------------------------------------------------
(* The three normalisations *)

\* new_cols with the Action rule lacking `and 'price' not in col_lower`
new_cols_any_action(cols) ==
    [i \in 1..Len(cols) |->
        LET col == cols[i]
            col_lower == lower(col)
        IN  IF i = 1 \/ contains(s_date, col_lower) \/ contains(s_index, col_lower) THEN Date
            ELSE IF contains(s_firm, col_lower) THEN Firm
            ELSE IF contains(s_tograde, col_lower) \/ col = ToGrade THEN To_Grade
            ELSE IF contains(s_fromgrade, col_lower) \/ col = FromGrade THEN From_Grade
            ELSE IF contains(s_action, col_lower) THEN Action
            ELSE IF contains(s_pricetargetaction, col_lower) \/ col = PriceTargetAction
                 THEN Price_Target_Action
            ELSE IF contains(s_currentpricetarget, col_lower) \/ col = CurrentPriceTarget
                 THEN Current_Price_Target
            ELSE IF contains(s_priorpricetarget, col_lower) \/ col = PriorPriceTarget
                 THEN Prior_Price_Target
            ELSE col]

\* streamlit_app.py, process_actions_for_display: the column mapping
new_cols(cols) ==
    [i \in 1..Len(cols) |->
        LET col == cols[i]
            col_lower == lower(col)
        IN  IF i = 1 \/ contains(s_date, col_lower) \/ contains(s_index, col_lower) THEN Date
            ELSE IF contains(s_firm, col_lower) THEN Firm
            ELSE IF contains(s_tograde, col_lower) \/ col = ToGrade THEN To_Grade
            ELSE IF contains(s_fromgrade, col_lower) \/ col = FromGrade THEN From_Grade
            ELSE IF contains(s_action, col_lower) /\ ~contains(s_price, col_lower) THEN Action
            ELSE IF contains(s_pricetargetaction, col_lower) \/ col = PriceTargetAction
                 THEN Price_Target_Action
            ELSE IF contains(s_currentpricetarget, col_lower) \/ col = CurrentPriceTarget
                 THEN Current_Price_Target
            ELSE IF contains(s_priorpricetarget, col_lower) \/ col = PriorPriceTarget
                 THEN Prior_Price_Target
            ELSE col]

action_map ==
    [main |-> "Maintains", up |-> "Upgrade", down |-> "Downgrade",
     init |-> "Initiates", reit |-> "Reiterates"]

pt_action_map ==
    [up |-> "Raises", down |-> "Lowers", init |-> "Announces",
     main |-> "Maintains", reit |-> "Reiterates"]

\* column_order in the provider's order, Action after the grades
column_order_as_provided ==
    <<Date, Firm, To_Grade, From_Grade, Action,
      Price_Target_Action, Current_Price_Target, Prior_Price_Target>>

column_order ==
    <<Date, Firm, Action, To_Grade, From_Grade,
      Price_Target_Action, Current_Price_Target, Prior_Price_Target>>

process_actions_for_display(df_actions, date_format) ==
    IF empty(df_actions) THEN Ok(EmptyDF)
    ELSE LET display_df == reset_index(df_actions)
             renamed == Ok([display_df EXCEPT !.cols = new_cols(display_df.cols)])
             dated == format_date(renamed, date_format)
             actioned == map_codes(dated, Action, action_map)
             pt_actioned == map_codes(actioned, Price_Target_Action, pt_action_map)
             current == format_price(pt_actioned, Current_Price_Target)
             prior == format_price(current, Prior_Price_Target)
         IN  select_columns(prior, column_order)

\* streamlit_app.py, tab3: the column mapping of the combined frame
tab3_new_cols(cols) ==
    [i \in 1..Len(cols) |->
        LET col == cols[i]
            col_lower == lower(col)
        IN  IF col = Symbol THEN Symbol
            ELSE IF contains(s_date, col_lower) \/ contains(s_index, col_lower) \/ col = cols[2]
                 THEN Date
            ELSE IF contains(s_firm, col_lower) THEN Firm
            ELSE IF contains(s_tograde, col_lower) \/ col = ToGrade THEN To_Grade
            ELSE IF contains(s_fromgrade, col_lower) \/ col = FromGrade THEN From_Grade
            ELSE IF contains(s_action, col_lower) /\ ~contains(s_price, col_lower) THEN Action
            ELSE IF contains(s_pricetargetaction, col_lower) \/ col = PriceTargetAction
                 THEN Price_Target_Action
            ELSE IF contains(s_currentpricetarget, col_lower) \/ col = CurrentPriceTarget
                 THEN Current_Price_Target
            ELSE IF contains(s_priorpricetarget, col_lower) \/ col = PriorPriceTarget
                 THEN Prior_Price_Target
            ELSE col]

tab3_action_map ==
    [main |-> "Maintains", up |-> "Upgrade", down |-> "Downgrade",
     init |-> "Initiates", reit |-> "Reiterates"]

tab3_pt_action_map ==
    [up |-> "Raises", down |-> "Lowers", init |-> "Announces",
     main |-> "Maintains", reit |-> "Reiterates"]

tab3_column_order ==
    <<Symbol, Date, Firm, Action, To_Grade, From_Grade,
      Price_Target_Action, Current_Price_Target, Prior_Price_Target>>

\* tab3, from the combined frame to the frame that is then sorted
tab3_normalize(combined_df) ==
    LET renamed == Ok([combined_df EXCEPT !.cols = tab3_new_cols(combined_df.cols)])
        dated == format_date(renamed, MinuteFormat)
        actioned == map_codes(dated, Action, tab3_action_map)
        pt_actioned == map_codes(actioned, Price_Target_Action, tab3_pt_action_map)
        current == format_price(pt_actioned, Current_Price_Target)
        prior == format_price(current, Prior_Price_Target)
    IN  select_columns(prior, tab3_column_order)

\* digest_bot.py, get_analyst_actions: the names given by position
digest_columns ==
    <<Symbol, Date, Firm, To_Grade, From_Grade, Action,
      Price_Target_Action, Current_Price_Target, Prior_Price_Target>>

\* combined.columns = [...][:len(combined.columns)]: a frame of more columns
\* than names raises (length mismatch)
digest_rename(combined) ==
    IF Len(combined.cols) > Len(digest_columns) THEN Raise
    ELSE Ok([combined EXCEPT !.cols = SubSeq(digest_columns, 1, Len(combined.cols))])

digest_action_map ==
    [main |-> "Maintains", up |-> "Upgrade", down |-> "Downgrade",
     init |-> "Initiates", reit |-> "Reiterates"]

digest_pt_map ==
    [up |-> "Raises", down |-> "Lowers", init |-> "Announces",
     main |-> "Maintains", reit |-> "Reiterates"]

\* get_analyst_actions, from the combined frame to the frame that is then sorted
digest_normalize(combined) ==
    LET renamed == digest_rename(combined)
        dated == format_date(renamed, MinuteFormat)
        actioned == map_codes(dated, Action, digest_action_map)
        pt_actioned == map_codes(actioned, Price_Target_Action, digest_pt_map)
        current == format_price(pt_actioned, Current_Price_Target)
    IN  format_price(current, Prior_Price_Target)

NoActionsBody == "<p>No analyst actions in the last 24 hours.</p>"
NoActionsSubject == "Analyst Digest - No Actions Today"
\* f"Analyst Digest - {len(actions)} Actions in Last 24H"
ActionsSubject(n) == "Analyst Digest - " \o ToString(n) \o " Actions in Last 24H"

\* the <th> cells of the e-mail's table, by the label the cell is read by
email_headers ==
    <<Symbol, Date, Firm, Action, To_Grade, From_Grade,
      Price_Target_Action, Current_Price_Target, Prior_Price_Target>>

\* row.get(name, 'N/A')
row_get(df, i, name) ==
    IF has(df, name) THEN df.rows[i].cells[position(df.cols, name)] ELSE NA

\* create_html_email: the body's text, and the table's cells row by row
create_html_email(df) ==
    IF empty(df) THEN [text |-> NoActionsBody, table |-> <<>>]
    ELSE [text |-> "Analyst Actions - Last 24 Hours",
          table |-> [i \in 1..Len(df.rows) |->
                       [k \in 1..Len(email_headers) |-> row_get(df, i, email_headers[k])]]]

---------------------------------------------------------------------------
(* The provider and the two scripts *)

VARIABLES
    script,                 \* which script this run executes
    now,                    \* datetime.now()
    schema,                 \* the provider's index name and column names
    provider,               \* per symbol (as SYMBOLS): what the provider answers
    pc,                     \* where the script is
    i,                      \* the position in SYMBOLS of the loop the script is in
    analyst_actions_data,   \* streamlit_app: fetch_all_analyst_actions' dict
    tab2,                   \* streamlit_app: what tab2 shows, per symbol
    tab3,                   \* streamlit_app: what tab3 shows
    all_actions,            \* digest_bot: get_analyst_actions' list of frames
    actions,                \* digest_bot: what get_analyst_actions returned
    printed,                \* digest_bot: the lines printed
    sent,                   \* digest_bot: the calls of resend.Emails.send
    exit_status,            \* digest_bot: the process' exit status, once it ended
    fh_ratings_list,        \* streamlit_app: full_ratings' last answer of finnhub
    bullish_pct,            \* streamlit_app: full_ratings' local of that name
    ratings_data,           \* streamlit_app: full_ratings' list of rows (data)
    tab1                    \* streamlit_app: the warnings and what tab1 shows

vars == <<script, now, schema, provider, pc, i, analyst_actions_data, tab2, tab3,
          all_actions, actions, printed, sent, exit_status,
          fh_ratings_list, bullish_pct, ratings_data, tab1>>

\* SYMBOLS (the environment variable of that name)
SYMBOLS == <<"AAPL", "MSFT">>

WindowHours == 24
WindowDays == 90

EmptyFrame == [index_name |-> <<>>, cols |-> <<>>, rows |-> <<>>]

\* the provider's value of a row under one of its column names
cell_of(raw, name) ==
    CASE name = Firm -> Str(raw.firm)
      [] name \in {ToGrade, To_Grade} -> Str(raw.toGrade)
      [] name = FromGrade -> Str(raw.fromGrade)
      [] name = Action -> Str(raw.action)
      [] name \in {priceTargetAction, PriceTargetAction, Price_Target_Action} -> Str(raw.pta)
      [] name \in {currentPriceTarget, CurrentPriceTarget} -> raw.cpt
      [] name \in {priorPriceTarget, PriorPriceTarget} -> raw.ppt
      [] OTHER -> Str("Y")

\* ticker.upgrades_downgrades of the k-th symbol: a frame indexed by the
\* action's time; every row carries its place <<symbol, position>> in it
upgrades_downgrades(k) ==
    [index_name |-> schema.index_name,
     cols |-> schema.cols,
     rows |-> [r \in 1..Len(provider[k].rows) |->
                [id |-> <<SYMBOLS[k], r>>,
                 ts |-> provider[k].rows[r].ts,
                 cells |-> [j \in 1..Len(schema.cols) |->
                              cell_of(provider[k].rows[r], schema.cols[j])]]]]

Info(text) == [kind |-> "info", text |-> text, df |-> EmptyDF]
Warning(text) == [kind |-> "warning", text |-> text, df |-> EmptyDF]
DataFrame(df) == [kind |-> "dataframe", text |-> "", df |-> df]
NotShown == [kind |-> "none", text |-> "", df |-> EmptyDF]

\* fetch_all_analyst_actions with the try around the loop: the first symbol
\* that raises ends the loop
fetch_all_analyst_actions_abort ==
    /\ script = "streamlit_app"
    /\ pc = "fetch_all_analyst_actions"
    /\ LET sym == SYMBOLS[i]
       IN  analyst_actions_data' = [analyst_actions_data EXCEPT ![i] =
             IF provider[i].kind = "raise"
             THEN [company_name |-> sym, actions |-> EmptyFrame,
                   error |-> "fetch failed: " \o sym]
             ELSE [company_name |-> sym \o " Inc.",
                   actions |-> IF provider[i].kind = "none" THEN EmptyFrame
                               ELSE upgrades_downgrades(i)]]
    /\ IF i < Len(SYMBOLS) /\ provider[i].kind # "raise" THEN i' = i + 1 /\ pc' = pc
                                                          ELSE i' = 1 /\ pc' = "tab2"
    /\ UNCHANGED <<fh_ratings_list, bullish_pct, ratings_data, tab1, script, now, schema, provider, tab2, tab3,
                   all_actions, actions, printed, sent, exit_status>>

\* streamlit_app.py: one turn of fetch_all_analyst_actions' loop
fetch_all_analyst_actions ==
    /\ script = "streamlit_app"
    /\ pc = "fetch_all_analyst_actions"
    /\ LET sym == SYMBOLS[i]
       IN  analyst_actions_data' = [analyst_actions_data EXCEPT ![i] =
             IF provider[i].kind = "raise"
             THEN [company_name |-> sym, actions |-> EmptyFrame,
                   error |-> "fetch failed: " \o sym]
             ELSE [company_name |-> sym \o " Inc.",
                   actions |-> IF provider[i].kind = "none" THEN EmptyFrame
                               ELSE upgrades_downgrades(i)]]
    /\ IF i < Len(SYMBOLS) THEN i' = i + 1 /\ pc' = pc
                           ELSE i' = 1 /\ pc' = "tab2"
    /\ UNCHANGED <<fh_ratings_list, bullish_pct, ratings_data, tab1, script, now, schema, provider, tab2, tab3,
                   all_actions, actions, printed, sent, exit_status>>

\* tab2_section without the test `if not recent.empty`
tab2_section_unguarded(data) ==
    IF "error" \in DOMAIN data THEN Ok(Warning("Error: " \o data.error))
    ELSE IF ~empty(data.actions)
    THEN LET recent == not_older(data.actions, now - WindowDays * SecondsPerDay)
             display_df == process_actions_for_display(recent, DayFormat)
         IN  IF display_df.raised THEN Raise ELSE Ok(DataFrame(display_df.df))
    ELSE Ok(Info("No analyst actions data available"))

\* what tab2 shows for one symbol; raised when the processing raises
tab2_section(data) ==
    IF "error" \in DOMAIN data THEN Ok(Warning("Error: " \o data.error))
    ELSE IF ~empty(data.actions)
    THEN LET cutoff_date == now - WindowDays * SecondsPerDay
             recent == not_older(data.actions, cutoff_date)
         IN  IF ~empty(recent)
             THEN LET display_df == process_actions_for_display(recent, DayFormat)
                  IN  IF display_df.raised THEN Raise ELSE Ok(DataFrame(display_df.df))
             ELSE Ok(Info("No recent actions in the last 90 days"))
    ELSE Ok(Info("No analyst actions data available"))

\* streamlit_app.py: one turn of tab2's loop
tab2_symbol ==
    /\ script = "streamlit_app"
    /\ pc = "tab2"
    /\ LET shown == tab2_section(analyst_actions_data[i])
       IN  IF shown.raised
           THEN /\ pc' = "raised"
                /\ UNCHANGED <<i, tab2>>
           ELSE /\ tab2' = [tab2 EXCEPT ![i] = shown.df]
                /\ IF i < Len(SYMBOLS) THEN i' = i + 1 /\ pc' = pc
                                       ELSE i' = 1 /\ pc' = "tab3"
    /\ UNCHANGED <<fh_ratings_list, bullish_pct, ratings_data, tab1, script, now, schema, provider, analyst_actions_data, tab3,
                   all_actions, actions, printed, sent, exit_status>>

RECURSIVE all_recent_actions(_, _)
\* tab3's loop over the symbols from the k-th on
all_recent_actions(k, cutoff_time) ==
    IF k > Len(SYMBOLS) THEN <<>>
    ELSE LET act == analyst_actions_data[k].actions
             recent == not_older(act, cutoff_time)
         IN  (IF ~empty(act) /\ ~empty(recent)
              THEN <<insert_symbol(reset_index(recent), SYMBOLS[k])>>
              ELSE <<>>) \o all_recent_actions(k + 1, cutoff_time)

\* streamlit_app.py: tab3
tab3_render ==
    /\ script = "streamlit_app"
    /\ pc = "tab3"
    /\ LET cutoff_time == now - WindowHours * SecondsPerHour
           frames == all_recent_actions(1, cutoff_time)
       IN  IF frames # <<>>
           THEN LET display_df == tab3_normalize(concat(frames))
                IN  IF display_df.raised
                    THEN pc' = "raised" /\ UNCHANGED tab3
                    ELSE /\ \E p \in sort_values(display_df.df) :
                              tab3' = DataFrame(reorder(display_df.df, p))
                         /\ pc' = "done"
           ELSE /\ tab3' = Info("No analyst actions in the last 24 hours")
                /\ pc' = "done"
    /\ UNCHANGED <<fh_ratings_list, bullish_pct, ratings_data, tab1, script, now, schema, provider, i, analyst_actions_data, tab2,
                   all_actions, actions, printed, sent, exit_status>>

\* digest_bot.py: one turn of get_analyst_actions' loop.  The except clause
\* prints the error and the loop goes on
get_analyst_actions_symbol ==
    /\ script = "digest_bot"
    /\ pc = "get_analyst_actions"
    /\ LET sym == SYMBOLS[i]
           cutoff_time == now - WindowHours * SecondsPerHour
       IN  IF provider[i].kind = "raise"
           THEN /\ printed' = Append(printed, "Error fetching " \o sym)
                /\ UNCHANGED all_actions
           ELSE /\ LET act == upgrades_downgrades(i)
                       recent == not_older(act, cutoff_time)
                   IN  all_actions' =
                         IF provider[i].kind # "none" /\ ~empty(act) /\ ~empty(recent)
                         THEN Append(all_actions, insert_symbol(reset_index(recent), sym))
                         ELSE all_actions
                /\ UNCHANGED printed
    /\ IF i < Len(SYMBOLS) THEN i' = i + 1 /\ pc' = pc
                           ELSE i' = 1 /\ pc' = "combine"
    /\ UNCHANGED <<fh_ratings_list, bullish_pct, ratings_data, tab1, script, now, schema, provider, analyst_actions_data, tab2, tab3,
                   actions, sent, exit_status>>

\* digest_bot.py: get_analyst_actions after its loop.  Nothing catches what
\* the normalisation raises: the interpreter prints the traceback and the
\* process ends with status 1
get_analyst_actions_return ==
    /\ script = "digest_bot"
    /\ pc = "combine"
    /\ IF all_actions = <<>>
       THEN /\ actions' = EmptyDF
            /\ pc' = "send"
            /\ UNCHANGED exit_status
       ELSE LET combined == digest_normalize(concat(all_actions))
            IN  IF combined.raised
                THEN /\ pc' = "exited"
                     /\ exit_status' = 1
                     /\ UNCHANGED actions
                ELSE /\ \E p \in sort_values(combined.df) :
                          actions' = reorder(combined.df, p)
                     /\ pc' = "send"
                     /\ UNCHANGED exit_status
    /\ UNCHANGED <<fh_ratings_list, bullish_pct, ratings_data, tab1, script, now, schema, provider, i, analyst_actions_data, tab2, tab3,
                   all_actions, printed, sent>>

\* digest_bot.py: send_digest after get_analyst_actions returned;
\* resend.Emails.send delivers the message or raises
send_digest ==
    /\ script = "digest_bot"
    /\ pc = "send"
    /\ \E delivered \in BOOLEAN :
          /\ sent' = Append(sent,
                [subject |-> IF ~empty(actions) THEN ActionsSubject(Len(actions.rows))
                             ELSE NoActionsSubject,
                 html |-> create_html_email(actions),
                 delivered |-> delivered])
          /\ printed' = Append(printed, IF delivered THEN "Email sent!" ELSE "Error: send failed")
          /\ pc' = IF delivered THEN "returned True" ELSE "returned False"
    /\ UNCHANGED <<fh_ratings_list, bullish_pct, ratings_data, tab1, script, now, schema, provider, i, analyst_actions_data, tab2, tab3,
                   all_actions, actions, exit_status>>

\* digest_bot.py: the script's last statement is the call send_digest(), whose
\* value is not used; the interpreter then ends with status 0
main ==
    /\ script = "digest_bot"
    /\ pc \in {"returned True", "returned False"}
    /\ pc' = "exited"
    /\ exit_status' = 0
    /\ UNCHANGED <<fh_ratings_list, bullish_pct, ratings_data, tab1, script, now, schema, provider, i, analyst_actions_data, tab2, tab3,
                   all_actions, actions, printed, sent>>

Next ==
    \/ fetch_all_analyst_actions
    \/ tab2_symbol
    \/ tab3_render
    \/ get_analyst_actions_symbol
    \/ get_analyst_actions_return
    \/ send_digest
    \/ main

---------------------------------------------------------------------------
(* The summary tab: full_ratings *)

\* a float, kept as the exact ratio num / den (den > 0)
Ratio(num, den) == [raised |-> FALSE, num |-> num, den |-> den]
ZeroDivisionError == [raised |-> TRUE, num |-> 0, den |-> 1]

\* a / b
truediv(a, b) == IF b = 0 THEN ZeroDivisionError ELSE Ratio(a, b)
\* q * n
times(q, n) == IF q.raised THEN q ELSE Ratio(q.num * n, q.den)

\* round(q, 1), in tenths; a value halfway between two tenths goes to the one
\* the binary float is nearer to, or to the even one: either of the two
round_1(q) ==
    LET tenths == (q.num * 10) \div q.den
        rest == (q.num * 10) % q.den
    IN  IF 2 * rest < q.den THEN {tenths}
        ELSE IF 2 * rest > q.den THEN {tenths + 1}
        ELSE {tenths, tenths + 1}

\* the keys summed, in the order of the list
rating_keys == <<"strongBuy", "buy", "hold", "sell", "strongSell">>

\* d.get(k, default), d a dict: a function of the keys it has
get(d, k, default) == IF k \in DOMAIN d THEN d[k] ELSE default

\* fh_ratings_list[0] if fh_ratings_list else {}
fh_ratings_of(ratings_list) == IF ratings_list # <<>> THEN ratings_list[1] ELSE <<>>

RECURSIVE sum_get(_, _)
\* sum([ratings.get(k, 0) for k in keys])
sum_get(ratings, keys) ==
    IF keys = <<>> THEN 0
    ELSE get(ratings, Head(keys), 0) + sum_get(ratings, Tail(keys))

total_analysts(ratings) == sum_get(ratings, rating_keys)

\* the percentage without the test of total_analysts
bullish_pct_of_unguarded(ratings) ==
    times(truediv(get(ratings, "strongBuy", 0) + get(ratings, "buy", 0),
                  total_analysts(ratings)), 100)

bullish_pct_of(ratings) ==
    IF total_analysts(ratings) > 0
    THEN times(truediv(get(ratings, "strongBuy", 0) + get(ratings, "buy", 0),
                       total_analysts(ratings)), 100)
    ELSE Ratio(0, 1)

Error(text) == [kind |-> "error", text |-> text, df |-> EmptyDF]

---------------------------------------------------------------------------
(* The provider's answers *)

\* the instant the run takes place at, in seconds
Now0 == 8640000
\* the rows the provider holds, over all symbols
MaxRows == 2

Cutoff24 == Now0 - WindowHours * SecondsPerHour
Cutoff90 == Now0 - WindowDays * SecondsPerDay

RawRow(ts, action, pta, cpt, ppt) ==
    [ts |-> ts, firm |-> "Acme Research", toGrade |-> "Buy", fromGrade |-> "Hold",
     action |-> action, pta |-> pta, cpt |-> cpt, ppt |-> ppt]

\* rows on both sides of, and at, either cutoff; every action code and an
\* unknown one; prices that are numbers, None and ''
RowPool ==
    { RawRow(Cutoff90 - 1, "main", "up", Num(21000), Num(20000)),
      RawRow(Cutoff90, "up", "down", Null, Str("")),
      RawRow(Cutoff24 - 1, "down", "init", Str(""), Null),
      RawRow(Cutoff24, "init", "main", Num(1250), Null),
      RawRow(Now0 - 30, "reit", "reit", Num(1205), Num(1250)),
      RawRow(Now0 - 10, "xyz", "xyz", Null, Num(21000)) }

RECURSIVE RowSeqs(_, _)
RowSeqs(pool, n) ==
    IF n = 0 THEN {<<>>}
    ELSE RowSeqs(pool, n - 1)
            \cup {Append(q, row) : q \in {x \in RowSeqs(pool, n - 1) : Len(x) = n - 1}, row \in pool}

\* what the provider answers for one symbol: it raises, it has no table
\* (None), or it has a table of rows
Answers(pool, n) ==
    {[kind |-> "raise", rows |-> <<>>], [kind |-> "none", rows |-> <<>>]}
        \cup {[kind |-> "frame", rows |-> q] : q \in RowSeqs(pool, n)}

RECURSIVE Providers(_, _, _)
\* the answers for the first k symbols, of at most n rows in all
Providers(pool, k, n) ==
    IF k = 0 THEN {<<>>}
    ELSE UNION {{Append(pr, a) : pr \in Providers(pool, k - 1, n - Len(a.rows))} :
                    a \in Answers(pool, n)}

\* yfinance's upgrades_downgrades: indexed by GradeDate; the price-target
\* columns are those of its later versions
YfColumns ==
    <<Firm, ToGrade, FromGrade, Action, priceTargetAction, currentPriceTarget, priorPriceTarget>>

YfSchemas == {[index_name |-> GradeDate, cols |-> SubSeq(YfColumns, 1, n)] : n \in 4..7}

InitWith(schemas, providers) ==
    /\ script \in {"streamlit_app", "digest_bot"}
    /\ now = Now0
    /\ schema \in schemas
    /\ provider \in providers
    /\ pc = IF script = "streamlit_app" THEN "fetch_all_analyst_actions"
                                        ELSE "get_analyst_actions"
    /\ i = 1
    /\ analyst_actions_data = [k \in 1..Len(SYMBOLS) |-> [actions |-> EmptyFrame]]
    /\ tab2 = [k \in 1..Len(SYMBOLS) |-> NotShown]
    /\ tab3 = NotShown
    /\ all_actions = <<>>
    /\ actions = EmptyDF
    /\ printed = <<>>
    /\ sent = <<>>
    /\ exit_status = -1
    /\ fh_ratings_list = <<>>
    /\ bullish_pct = Ratio(0, 1)
    /\ ratings_data = <<>>
    /\ tab1 = [warnings |-> <<>>, shown |-> NotShown]

Init == InitWith(YfSchemas, Providers(RowPool, Len(SYMBOLS), MaxRows))

Spec == Init /\ [][Next]_vars

\* Tables of other providers and versions: the columns in another order,
\* under other names, with a column more or a column less
Swap(cols, a, b) == [cols EXCEPT ![a] = cols[b], ![b] = cols[a]]
InsertAt(cols, k, name) == SubSeq(cols, 1, k - 1) \o <<name>> \o SubSeq(cols, k, Len(cols))
Without(cols, names) == SelectSeq(cols, LAMBDA c : c \notin names)

ExtraNames == {action_price_flag, Price_Target_Action, To_Grade, firm_action, action_date}

WideColumns ==
    {Swap(YfColumns, a, b) : a, b \in 1..Len(YfColumns)}
        \cup {Without(YfColumns, names) :
                names \in SUBSET {priceTargetAction, currentPriceTarget, priorPriceTarget}}
        \cup {InsertAt(SubSeq(YfColumns, 1, 4), k, name) : k \in 1..5, name \in ExtraNames}

WideSchemas == {[index_name |-> n, cols |-> c] : n \in {GradeDate, epoch}, c \in WideColumns}

WidePool ==
    { RawRow(Cutoff24, "up", "down", Num(1250), Null),
      RawRow(Now0 - 10, "xyz", "main", Str(""), Num(21000)) }

\* the rows of the tables of other providers, over all the symbols
MaxWideRows == 1

InitWide == InitWith(WideSchemas, Providers(WidePool, Len(SYMBOLS), MaxWideRows))

SpecWide == InitWide /\ [][Next]_vars

---------------------------------------------------------------------------
(* The summary tab on finnhub's answers *)

\* the analysts of one symbol, over the five ratings
MaxAnalysts == 3

\* the dict of the latest period: any of the five keys, with their counts
RatingDicts ==
    UNION {{d \in [K -> 0..MaxAnalysts] : sum_get(d, rating_keys) <= MaxAnalysts} :
              K \in SUBSET {rating_keys[k] : k \in 1..Len(rating_keys)}}

\* what fh.recommendation_trends(sym) (or ticker.info before it) does: it
\* raises, or it answers a list, of which only the first dict is read
RatingsAnswers ==
    {[kind |-> "raise", list |-> <<>>], [kind |-> "list", list |-> <<>>]}
        \cup {[kind |-> "list", list |-> <<d>>] : d \in RatingDicts}

\* the table tab1 shows
RatingsTable(rows) == [kind |-> "dataframe", text |-> "", df |-> rows]

\* one pass of full_ratings' loop. Of the row, the columns made from
\* fh_ratings; Company, Consensus and Target Price are texts of ticker.info
full_ratings_symbol ==
    /\ script = "streamlit_app"
    /\ pc = "full_ratings"
    /\ i <= Len(SYMBOLS)
    /\ \E answer \in RatingsAnswers :
          IF answer.kind = "raise"
          THEN /\ tab1' = [tab1 EXCEPT !.warnings =
                               Append(@, [sym |-> SYMBOLS[i], error |-> "provider error"])]
               /\ UNCHANGED <<fh_ratings_list, bullish_pct, ratings_data>>
          ELSE LET fh_ratings == fh_ratings_of(answer.list)
                   pct == bullish_pct_of(fh_ratings)
               IN  /\ fh_ratings_list' = answer.list
                   /\ IF pct.raised
                      THEN /\ tab1' = [tab1 EXCEPT !.warnings =
                                           Append(@, [sym |-> SYMBOLS[i],
                                                      error |-> "division by zero"])]
                           /\ UNCHANGED <<bullish_pct, ratings_data>>
                      ELSE /\ bullish_pct' = pct
                           /\ \E shown \in round_1(pct) :
                                 ratings_data' =
                                    Append(ratings_data,
                                           [Symbol |-> SYMBOLS[i],
                                            Strong_Buy |-> get(fh_ratings, "strongBuy", 0),
                                            Buy |-> get(fh_ratings, "buy", 0),
                                            Hold |-> get(fh_ratings, "hold", 0),
                                            Sell |-> get(fh_ratings, "sell", 0),
                                            Pct_Bullish |-> shown])
                           /\ UNCHANGED tab1
    /\ i' = i + 1
    /\ pc' = IF i = Len(SYMBOLS) THEN "tab1" ELSE pc
    /\ UNCHANGED <<script, now, schema, provider, analyst_actions_data, tab2, tab3,
                   all_actions, actions, printed, sent, exit_status>>

\* The orders df.sort_values('% Bullish', ascending=False) may leave the rows
\* in (quicksort: rows of equal percentage in any order)
sort_values_bullish(rows) ==
    {p \in [1..Len(rows) -> 1..Len(rows)] :
        /\ \A a, b \in 1..Len(rows) : a # b => p[a] # p[b]
        /\ \A a \in 1..(Len(rows) - 1) :
              rows[p[a]].Pct_Bullish >= rows[p[a + 1]].Pct_Bullish}

tab1_render ==
    /\ script = "streamlit_app"
    /\ pc = "tab1"
    /\ IF ratings_data # <<>>
       THEN \E p \in sort_values_bullish(ratings_data) :
               tab1' = [tab1 EXCEPT !.shown =
                           RatingsTable([k \in 1..Len(ratings_data) |-> ratings_data[p[k]]])]
       ELSE tab1' = [tab1 EXCEPT !.shown = Error("No data available")]
    /\ pc' = "tab2"
    /\ i' = 1
    /\ UNCHANGED <<fh_ratings_list, bullish_pct, ratings_data, script, now, schema, provider,
                   analyst_actions_data, tab2, tab3,
                   all_actions, actions, printed, sent, exit_status>>

NextRatings ==
    \/ full_ratings_symbol
    \/ tab1_render

InitRatings ==
    /\ script = "streamlit_app"
    /\ now = Now0
    /\ schema = [index_name |-> GradeDate, cols |-> YfColumns]
    /\ provider = [k \in 1..Len(SYMBOLS) |-> [kind |-> "none", rows |-> <<>>]]
    /\ pc = "full_ratings"
    /\ i = 1
    /\ analyst_actions_data = [k \in 1..Len(SYMBOLS) |-> [actions |-> EmptyFrame]]
    /\ tab2 = [k \in 1..Len(SYMBOLS) |-> NotShown]
    /\ tab3 = NotShown
    /\ all_actions = <<>>
    /\ actions = EmptyDF
    /\ printed = <<>>
    /\ sent = <<>>
    /\ exit_status = -1
    /\ fh_ratings_list = <<>>
    /\ bullish_pct = Ratio(0, 1)
    /\ ratings_data = <<>>
    /\ tab1 = [warnings |-> <<>>, shown |-> NotShown]

SpecRatings == InitRatings /\ [][NextRatings]_vars

---------------------------------------------------------------------------
(* Properties *)

sym_index(sym) == CHOOSE k \in 1..Len(SYMBOLS) : SYMBOLS[k] = sym
\* the provider's row a presented row was made from
raw_of(id) == provider[sym_index(id[1])].rows[id[2]]
ids(df) == {df.rows[r].id : r \in 1..Len(df.rows)}
date_key(df, r) == df.rows[r].cells[position(df.cols, Date)].n
cell(df, r, name) == df.rows[r].cells[position(df.cols, name)]

\* the tables the run has presented so far
Tab2Shown == {k \in 1..Len(SYMBOLS) : tab2[k].kind # "none"}
Tab2Tables == {tab2[k].df : k \in {x \in 1..Len(SYMBOLS) : tab2[x].kind = "dataframe"}}
Tab3Tables == IF tab3.kind = "dataframe" THEN {tab3.df} ELSE {}
\* get_analyst_actions has returned
DigestReturned ==
    /\ script = "digest_bot"
    /\ pc \in {"send", "returned True", "returned False"} \/ (pc = "exited" /\ exit_status = 0)
DigestTables == IF DigestReturned /\ ~empty(actions) THEN {actions} ELSE {}
PresentedTables == Tab2Tables \cup Tab3Tables \cup DigestTables

InputBefore(a, b) ==
    \/ sym_index(a[1]) < sym_index(b[1])
    \/ a[1] = b[1] /\ a[2] < b[2]

SortedByDateStable(df) ==
    \A a, b \in 1..Len(df.rows) :
        a < b => \/ date_key(df, a) > date_key(df, b)
                 \/ /\ date_key(df, a) = date_key(df, b)
                    /\ InputBefore(df.rows[a].id, df.rows[b].id)

\* C1: every presented table (the 90-day tables of tab2, the 24-hour table of
\* tab3, the table get_analyst_actions returns) has its rows by Date
\* descending, rows of equal Date in their input order.
C1_PresentedTablesSortedByDate == \A df \in PresentedTables : SortedByDateStable(df)

\* C1, the part that holds of the sorted tables: by Date descending
C1_SortedTablesDescending ==
    \A df \in Tab3Tables \cup DigestTables :
        \A a, b \in 1..Len(df.rows) : a < b => date_key(df, a) >= date_key(df, b)

\* C7: when the send fails the digest run logs the failure, has made exactly
\* one send attempt and ends with a non-zero exit status; when the send
\* succeeds it ends with status zero.
C7_SendFailureExitsNonZero ==
    (pc = "exited" /\ sent # <<>>) =>
        /\ Len(sent) = 1
        /\ sent[1].delivered => exit_status = 0
        /\ ~sent[1].delivered =>
              /\ exit_status # 0
              /\ \E k \in 1..Len(printed) : printed[k] = "Error: send failed"

\* C7, what the run does do on a failed send: one attempt, the failure
\* printed, status 0
C7_SendFailureExitsZero ==
    (pc = "exited" /\ sent # <<>>) =>
        /\ Len(sent) = 1
        /\ exit_status = 0
        /\ ~sent[1].delivered => \E k \in 1..Len(printed) : printed[k] = "Error: send failed"

\* the provider's rows of the k-th symbol that are not strictly older than cutoff
InWindow(k, cutoff) ==
    {<<SYMBOLS[k], r>> : r \in {x \in 1..Len(provider[k].rows) : provider[k].rows[x].ts >= cutoff}}
InWindowAll(cutoff) == UNION {InWindow(k, cutoff) : k \in 1..Len(SYMBOLS)}
NoDuplicates(df) == Cardinality(ids(df)) = Len(df.rows)

\* C9: a raw row is in the presented 24-hour (90-day) table if and only if
\* its time is not strictly older than now minus 24 hours (90 days); a row
\* exactly at the cutoff is kept.
C9_WindowKeepsExactlyTheRowsNotOlder ==
    /\ \A k \in Tab2Shown :
          /\ ids(tab2[k].df) = InWindow(k, now - 90 * 86400)
          /\ NoDuplicates(tab2[k].df)
    /\ (script = "streamlit_app" /\ pc = "done") =>
          /\ ids(tab3.df) = InWindowAll(now - 24 * 3600)
          /\ NoDuplicates(tab3.df)
    /\ DigestReturned =>
          /\ ids(actions) = InWindowAll(now - 24 * 3600)
          /\ NoDuplicates(actions)

\* C9's case: the 24-hour table holds a row exactly at the cutoff while the
\* provider also has a row one second older
C9_Witness ==
    /\ tab3.kind = "dataframe"
    /\ \E id \in ids(tab3.df) : raw_of(id).ts = now - 24 * 3600
    /\ \E k \in 1..Len(SYMBOLS) : \E r \in 1..Len(provider[k].rows) :
          provider[k].rows[r].ts = now - 24 * 3600 - 1

\* the loop over the symbols has dealt with the k-th symbol
Fetched(k) ==
    \/ pc \notin {"fetch_all_analyst_actions", "get_analyst_actions"}
    \/ k < i
\* the frame get_analyst_actions holds for a symbol; the empty frame if none
DigestFrame(sym) ==
    IF \E n \in 1..Len(all_actions) : all_actions[n].rows[1].id[1] = sym
    THEN all_actions[CHOOSE n \in 1..Len(all_actions) : all_actions[n].rows[1].id[1] = sym]
    ELSE EmptyDF
ProviderCells(id) ==
    [j \in 1..Len(schema.cols) |-> cell_of(raw_of(id), schema.cols[j])]

\* C6: a symbol whose fetch raises never ends the fetch loop: every symbol is
\* dealt with, the failed one is recorded with an empty result and an error
\* message, and every other symbol keeps the data the provider returned.
C6_FetchFailureDoesNotAbort ==
    /\ script = "streamlit_app" =>
          \A k \in 1..Len(SYMBOLS) : Fetched(k) =>
              LET data == analyst_actions_data[k]
              IN  /\ "company_name" \in DOMAIN data
                  /\ provider[k].kind = "raise" =>
                        /\ empty(data.actions)
                        /\ "error" \in DOMAIN data
                        /\ data.error # ""
                  /\ provider[k].kind # "raise" =>
                        /\ "error" \notin DOMAIN data
                        /\ Len(data.actions.rows) = Len(provider[k].rows)
                        /\ \A r \in 1..Len(data.actions.rows) :
                              /\ data.actions.rows[r].id = <<SYMBOLS[k], r>>
                              /\ data.actions.rows[r].ts = provider[k].rows[r].ts
                              /\ data.actions.rows[r].cells = ProviderCells(<<SYMBOLS[k], r>>)
    /\ script = "digest_bot" =>
          \A k \in 1..Len(SYMBOLS) : Fetched(k) =>
              LET frame == DigestFrame(SYMBOLS[k])
              IN  /\ provider[k].kind = "raise" =>
                        /\ empty(frame)
                        /\ \E n \in 1..Len(printed) : printed[n] = "Error fetching " \o SYMBOLS[k]
                  /\ provider[k].kind # "raise" =>
                        /\ ids(frame) = InWindow(k, now - 24 * 3600)
                        /\ \A r \in 1..Len(frame.rows) :
                              frame.rows[r].cells =
                                 <<Str(SYMBOLS[k]), Ts(raw_of(frame.rows[r].id).ts)>>
                                    \o ProviderCells(frame.rows[r].id)

\* C6's case: the first symbol's fetch raised and the loop went on to record
\* the second symbol's rows
C6_Witness ==
    /\ script = "streamlit_app"
    /\ pc = "tab2"
    /\ provider[1].kind = "raise"
    /\ "error" \in DOMAIN analyst_actions_data[1]
    /\ Len(analyst_actions_data[2].actions.rows) > 0

\* C8: an empty input, or one whose rows are all older than the cutoff, never
\* raises: the normalisation returns an empty table and the run shows a
\* "no data" message (the dashboard's info line; the e-mail's "No analyst
\* actions in the last 24 hours" body under the "No Actions Today" subject)
\* instead of a table.
C8_EmptyInputGivesNoDataMessage ==
    /\ \A k \in Tab2Shown :
          (provider[k].kind # "raise" /\ InWindow(k, now - 90 * 86400) = {}) =>
              LET recent == not_older(analyst_actions_data[k].actions, now - 90 * 86400)
                  display_df == process_actions_for_display(recent, DayFormat)
              IN  /\ ~display_df.raised
                  /\ empty(display_df.df)
                  /\ tab2[k].kind = "info"
                  /\ tab2[k].text \in {"No analyst actions data available",
                                       "No recent actions in the last 90 days"}
    /\ InWindowAll(now - 24 * 3600) = {} =>
          /\ pc # "raised"
          /\ exit_status \in {-1, 0}
          /\ (script = "streamlit_app" /\ pc = "done") =>
                tab3 = Info("No analyst actions in the last 24 hours")
          /\ (script = "digest_bot" /\ pc \notin {"get_analyst_actions", "combine"}) =>
                /\ actions = EmptyDF
                /\ \A n \in 1..Len(sent) :
                      /\ sent[n].subject = "Analyst Digest - No Actions Today"
                      /\ sent[n].html.text = "<p>No analyst actions in the last 24 hours.</p>"
                      /\ sent[n].html.table = <<>>

\* C8's case: the digest was sent while the provider has rows, all of them
\* older than a day
C8_Witness ==
    /\ sent # <<>>
    /\ InWindowAll(now - 24 * 3600) = {}
    /\ \E k \in 1..Len(SYMBOLS) : Len(provider[k].rows) > 0

ExpectedAction(code) ==
    CASE code = "main" -> "Maintains"
      [] code = "up" -> "Upgrade"
      [] code = "down" -> "Downgrade"
      [] code = "init" -> "Initiates"
      [] code = "reit" -> "Reiterates"
      [] OTHER -> code

ExpectedPriceTargetAction(code) ==
    CASE code = "up" -> "Raises"
      [] code = "down" -> "Lowers"
      [] code = "init" -> "Announces"
      [] code = "main" -> "Maintains"
      [] code = "reit" -> "Reiterates"
      [] OTHER -> code

Provided(name) == \E j \in 1..Len(schema.cols) : schema.cols[j] = name

IsMissing(x) == x = Null \/ x = Str("")

\* C3 as stated: whenever a row's optional price is null, '' or its column is
\* absent from the input, the normalised row holds exactly "N/A" in that
\* output column (which is therefore never absent).
C3_MissingPriceIsNAEvenIfColumnAbsent ==
    \A df \in PresentedTables : \A r \in 1..Len(df.rows) :
        LET raw == raw_of(df.rows[r].id)
        IN  /\ has(df, Current_Price_Target)
            /\ (IsMissing(raw.cpt) \/ ~Provided(currentPriceTarget)) =>
                   cell(df, r, Current_Price_Target) = Str("N/A")
            /\ has(df, Prior_Price_Target)
            /\ (IsMissing(raw.ppt) \/ ~Provided(priorPriceTarget)) =>
                   cell(df, r, Prior_Price_Target) = Str("N/A")

PriceShown(df, r, provided_name, name, x) ==
    IF Provided(provided_name)
    THEN /\ has(df, name)
         /\ IsMissing(x) => cell(df, r, name) = Str("N/A")
         /\ ~IsMissing(x) => /\ cell(df, r, name).t = "str"
                             /\ cell(df, r, name).s \notin {"", "N/A"}
    ELSE ~has(df, name)

\* C3 as amended: a price that is null or '' in a column the input has is
\* shown as exactly "N/A" (and a number never as "N/A", '' or null); a price
\* column the input lacks is absent from the normalised table too, and the
\* digest's e-mail prints "N/A" in its cell.
C3_MissingPriceIsNA ==
    /\ \A df \in PresentedTables : \A r \in 1..Len(df.rows) :
          LET raw == raw_of(df.rows[r].id)
          IN  /\ PriceShown(df, r, currentPriceTarget, Current_Price_Target, raw.cpt)
              /\ PriceShown(df, r, priorPriceTarget, Prior_Price_Target, raw.ppt)
    /\ \A n \in 1..Len(sent) : \A r \in 1..Len(sent[n].html.table) :
          /\ ~Provided(currentPriceTarget) => sent[n].html.table[r][8] = Str("N/A")
          /\ ~Provided(priorPriceTarget) => sent[n].html.table[r][9] = Str("N/A")

\* C3's case: a presented table has the price columns and a row whose current
\* price target is '' and whose prior price target is None
C3_Witness ==
    \E df \in PresentedTables : \E r \in 1..Len(df.rows) :
        /\ Provided(currentPriceTarget)
        /\ Provided(priorPriceTarget)
        /\ raw_of(df.rows[r].id).cpt = Str("")
        /\ raw_of(df.rows[r].id).ppt = Null

CanonicalOrder ==
    <<Symbol, Date, Firm, Action, To_Grade, From_Grade,
      Price_Target_Action, Current_Price_Target, Prior_Price_Target>>
Range(seq) == {seq[k] : k \in 1..Len(seq)}
rank(name) == CHOOSE k \in 1..Len(CanonicalOrder) : CanonicalOrder[k] = name
InCanonicalOrder(cols) ==
    /\ \A j \in 1..Len(cols) : cols[j] \in Range(CanonicalOrder)
    /\ \A a, b \in 1..Len(cols) : a < b => rank(cols[a]) <= rank(cols[b])

\* C2 as stated: the columns of every normalised table (tab2's, tab3's and
\* the one get_analyst_actions returns) are in the relative order Symbol,
\* Date, Firm, Action, To Grade, From Grade, Price Target Action, Current
\* Price Target, Prior Price Target.
C2_AllTablesInCanonicalOrder == \A df \in PresentedTables : InCanonicalOrder(df.cols)

\* C2 as amended: tab2's and tab3's tables are in that order; the table
\* get_analyst_actions returns has its columns in the order Symbol, Date,
\* Firm, To Grade, From Grade, Action, Price Target Action, Current Price
\* Target, Prior Price Target (as many as the input has), and the e-mail
\* made from it prints each row's cells in the canonical order.
C2_DashboardCanonicalDigestPositional ==
    /\ \A df \in Tab2Tables \cup Tab3Tables : InCanonicalOrder(df.cols)
    /\ \A df \in DigestTables :
          df.cols = SubSeq(<<Symbol, Date, Firm, To_Grade, From_Grade, Action,
                             Price_Target_Action, Current_Price_Target, Prior_Price_Target>>,
                           1, Len(df.cols))
    /\ \A n \in 1..Len(sent) : \A r \in 1..Len(sent[n].html.table) :
          \A k \in 1..Len(CanonicalOrder) :
              sent[n].html.table[r][k] =
                 IF has(actions, CanonicalOrder[k]) THEN cell(actions, r, CanonicalOrder[k])
                                                    ELSE Str("N/A")

\* C2's case: get_analyst_actions returned a table of all nine columns and
\* the e-mail was made from it
C2_Witness ==
    /\ DigestReturned
    /\ Len(actions.cols) = 9
    /\ Len(actions.rows) > 0
    /\ sent # <<>>

\* the spec's rules, in their order
Matches(k, first, col) ==
    LET l == lower(col)
    IN  CASE k = 1 -> first \/ contains(s_date, l) \/ contains(s_index, l)
          [] k = 2 -> contains(s_firm, l)
          [] k = 3 -> contains(s_tograde, l)
          [] k = 4 -> contains(s_fromgrade, l)
          [] k = 5 -> contains(s_action, l) /\ ~contains(s_price, l)
          [] k = 6 -> contains(s_pricetargetaction, l)
          [] k = 7 -> contains(s_currentpricetarget, l)
          [] k = 8 -> contains(s_priorpricetarget, l)
RuleNames ==
    <<Date, Firm, To_Grade, From_Grade, Action,
      Price_Target_Action, Current_Price_Target, Prior_Price_Target>>
FirstRule(first, col) ==
    IF \E k \in 1..Len(RuleNames) : Matches(k, first, col)
    THEN RuleNames[CHOOSE k \in 1..Len(RuleNames) :
                      /\ Matches(k, first, col)
                      /\ \A j \in 1..(k - 1) : ~Matches(j, first, col)]
    ELSE col

\* the columns tab2's and tab3's normalisations are given, and the names the
\* rules give them
Tab2Input == <<schema.index_name>> \o schema.cols
Tab3Input == <<Symbol, schema.index_name>> \o schema.cols
Tab2Expected == [j \in 1..Len(Tab2Input) |-> FirstRule(j = 1, Tab2Input[j])]
Tab3Expected ==
    [j \in 1..Len(Tab3Input) |->
        IF Tab3Input[j] = Symbol THEN Symbol ELSE FirstRule(j = 2, Tab3Input[j])]

HasActionAndPrice(col) == contains(s_action, lower(col)) /\ contains(s_price, lower(col))
DuplicatesTransformed(expected) ==
    \E c \in {Date, Action, Price_Target_Action, Current_Price_Target, Prior_Price_Target} :
        count(expected, c) > 1

\* the table df was made from the columns input, named as expected
ClassifiedAs(df, input, expected, canonical) ==
    /\ InCanonicalOrder(df.cols)
    /\ \A c \in canonical : count(df.cols, c) = count(expected, c)
    /\ \A j \in 1..Len(input) :
          (expected[j] \in {Firm, To_Grade, From_Grade} /\ count(expected, expected[j]) = 1) =>
              \A r \in 1..Len(df.rows) :
                  cell(df, r, expected[j]) = cell_of(raw_of(df.rows[r].id), input[j])
    /\ Provided(ToGrade) => has(df, To_Grade)
    /\ \A j \in 1..Len(input) : HasActionAndPrice(input[j]) => expected[j] # Action

Classified ==
    /\ \A df \in Tab2Tables :
          ClassifiedAs(df, Tab2Input, Tab2Expected, Range(CanonicalOrder) \ {Symbol})
    /\ \A df \in Tab3Tables :
          ClassifiedAs(df, Tab3Input, Tab3Expected, Range(CanonicalOrder))
    /\ pc = "raised" => DuplicatesTransformed(Tab2Expected) \/ DuplicatesTransformed(Tab3Expected)

UnmatchedKeptIfCanonical(df, input, expected) ==
    \A j \in 1..Len(input) :
        (HasActionAndPrice(input[j]) /\ expected[j] = input[j]) =>
            (has(df, input[j]) <=> input[j] = Price_Target_Action)

IsPermutationOfYfColumns ==
    /\ Len(schema.cols) = Len(YfColumns)
    /\ \A c \in Range(YfColumns) : Provided(c)

\* the table get_analyst_actions returned and tab3's normalisation of the
\* same combined frame hold the same values under the same names
DigestAgreesWithTab3 ==
    LET dash == tab3_normalize(concat(all_actions))
    IN  /\ exit_status # 1
        /\ ~dash.raised
        /\ \A name \in Range(CanonicalOrder) : has(actions, name) <=> has(dash.df, name)
        /\ \A a \in 1..Len(actions.rows) : \A b \in 1..Len(dash.df.rows) :
              actions.rows[a].id = dash.df.rows[b].id =>
                  \A name \in Range(CanonicalOrder) :
                      (has(actions, name) /\ has(dash.df, name)) =>
                          cell(actions, a, name) = cell(dash.df, b, name)

DigestCombined ==
    /\ script = "digest_bot"
    /\ pc \notin {"get_analyst_actions", "combine"}
    /\ all_actions # <<>>

\* C10: for every batch whose columns are Symbol, the time, Firm, ToGrade,
\* FromGrade, Action, priceTargetAction, currentPriceTarget, priorPriceTarget
\* in any order, get_analyst_actions names each column as tab3 does, so the
\* two tables hold the same value under every canonical name for every row.
C10_DigestNamesColumnsAsDashboard ==
    (DigestCombined /\ IsPermutationOfYfColumns) => DigestAgreesWithTab3

\* C10, in the one order the positional names were written for: the
\* provider's own (a prefix of YfColumns)
C10_AgreesInProvidersOrder ==
    (DigestCombined /\ schema.cols = SubSeq(YfColumns, 1, Len(schema.cols))) =>
        DigestAgreesWithTab3

\* the passes of full_ratings' loop that are over, and the symbol of the last
RatingsPasses == Len(ratings_data) + Len(tab1.warnings)
LastPassAnswered ==
    /\ RatingsPasses > 0
    /\ tab1.warnings # <<>> =>
          LET w == tab1.warnings[Len(tab1.warnings)]
          IN  ~(w.sym = SYMBOLS[RatingsPasses] /\ w.error = "provider error")

\* a count of the answer the last pass read, a missing one taken as 0
Count(k) ==
    LET d == IF fh_ratings_list = <<>> THEN <<>> ELSE fh_ratings_list[1]
    IN  IF k \in DOMAIN d THEN d[k] ELSE 0

\* C11: for all counts strongBuy, buy, hold, sell, strongSell (a missing one
\* taken as 0), full_ratings' bullish percentage is 0 when the five sum to 0
\* and else (strongBuy + buy) * 100 divided by their sum; it lies between 0
\* and 100, and no pass of the loop ends in a division by zero.
C11_BullishPercentage ==
    /\ \A n \in 1..Len(tab1.warnings) : tab1.warnings[n].error # "division by zero"
    /\ LastPassAnswered =>
          LET favourable == Count("strongBuy") + Count("buy")
              all == Count("strongBuy") + Count("buy") + Count("hold")
                        + Count("sell") + Count("strongSell")
          IN  /\ ratings_data # <<>>
              /\ ratings_data[Len(ratings_data)].Symbol = SYMBOLS[RatingsPasses]
              /\ ~bullish_pct.raised
              /\ bullish_pct.den > 0
              /\ all = 0 => bullish_pct.num = 0
              /\ all > 0 => bullish_pct.num * all = favourable * 100 * bullish_pct.den
              /\ 0 <= bullish_pct.num
              /\ bullish_pct.num <= 100 * bullish_pct.den
              /\ ratings_data[Len(ratings_data)].Pct_Bullish \in 0..1000

\* C11's case: the first symbol has a third of its analysts bullish, the
\* second an empty answer (all counts missing, the sum 0), and tab1 shows both
C11_Witness ==
    /\ Len(ratings_data) = 2
    /\ tab1.warnings = <<>>
    /\ fh_ratings_list = <<>>
    /\ bullish_pct.num = 0
    /\ ratings_data[1].Pct_Bullish = 333
    /\ ratings_data[2].Pct_Bullish = 0
    /\ tab1.shown.kind = "dataframe"

====
